---- MODULE Spec2Model ----
(***************************************************************************)
(* Model of packages/merge/src/merge-resolvers.ts: mergeResolvers merges   *)
(* resolver definitions (Maps, Factories, nested Groups) and then deletes  *)
(* the excluded types and fields from the merged result.                   *)
(*                                                                         *)
(* JavaScript objects live in a heap (a sequence of objects, an address is *)
(* an index), so that a reference shared between an input and the result   *)
(* is one object and a delete through either is seen through both.         *)
(* Strings are sequences of one-character strings, so that split('.') is   *)
(* computed and not assumed.                                               *)
(***************************************************************************)
EXTENDS Integers, Sequences, FiniteSets, TLC

VARIABLES
  input,    \* the arguments of the call: defs, options, the heap at entry,
            \* and count, the number of definitions that are not Groups
  heap,     \* the objects, by address
  pc,       \* "start" before the call, "returned" after it
  result,   \* what mergeResolvers returned
  calls,    \* every call of an input Factory so far: [id, arg], in order
  outputs   \* one entry per invocation of the returned Factory

vars == <<input, heap, pc, result, calls, outputs>>

\* ---------------------------------------------------------------- bounds

MaxArg == 2           \* runtime arguments of a Factory are drawn from 1..MaxArg
MaxInvocations == 2   \* invocations of the returned Factory
MaxExcl == 2          \* length of options.exclusions

\* ---------------------------------------------------------------- values

TA == <<"A">>
TB == <<"B">>
FX == <<"x">>
FY == <<"y">>
\* the order in which the keys of an object are visited
KeyOrder == <<TA, TB, FX, FY>>

\* A property value: an opaque leaf (a resolver), or a reference to an object.
Scalar(v) == [t |-> "scalar", v |-> v]
Ref(a) == [t |-> "ref", v |-> <<a>>]
addr(val) == val.v[1]
isObject(val) == val.t = "ref"

EmptyObject == [k \in {} |-> Scalar(<<>>)]
keysOf(obj) == SelectSeq(KeyOrder, LAMBDA k : k \in DOMAIN obj)
put(obj, k, val) == (k :> val) @@ obj
deleteKey(obj, k) == [j \in DOMAIN obj \ {k} |-> obj[j]]

\* ---------------------------------------------------------------- mergeDeep

RECURSIVE mergeDeep(_, _, _)
RECURSIVE mergeDeepKeys(_, _, _, _, _)

\* mergeDeep(target, source) of @graphql-tools/utils, on the heap h: a new
\* object that starts as a copy of target's own properties and takes every
\* key of source; returns the heap and the new object's address.
mergeDeep(h, target, source) ==
  LET h1 == Append(h, h[target])
  IN  mergeDeepKeys(h1, Len(h1), target, source, keysOf(h[source]))

mergeDeepKeys(h, output, target, source, ks) ==
  IF ks = <<>> THEN [h |-> h, a |-> output]
  ELSE
    LET k == Head(ks)
        sv == h[source][k]
    IN  IF isObject(sv) /\ k \in DOMAIN h[target] /\ isObject(h[target][k])
        THEN \* both sides hold a mapping: a new node, merged recursively
             LET m == mergeDeep(h, addr(h[target][k]), addr(sv))
             IN  mergeDeepKeys([m.h EXCEPT ![output] = put(@, k, Ref(m.a))],
                               output, target, source, Tail(ks))
        ELSE \* the later value replaces the earlier one; a mapping that only
             \* one side supplies is not copied, the reference is shared
             mergeDeepKeys([h EXCEPT ![output] = put(@, k, sv)],
                           output, target, source, Tail(ks))

RECURSIVE reduceFrom(_, _, _)
reduceFrom(h, acc, as) ==
  IF as = <<>> THEN [h |-> h, a |-> acc]
  ELSE LET m == mergeDeep(h, acc, Head(as)) IN reduceFrom(m.h, m.a, Tail(as))

\* resolvers.reduce(mergeDeep, {}): left to right, from a fresh empty object
reduceMergeDeep(h, as) ==
  LET h1 == Append(h, EmptyObject) IN reduceFrom(h1, Len(h1), as)

\* ---------------------------------------------------------------- exclusions

NoOptions == [given |-> FALSE, exclusions |-> <<>>]
Options(excl) == [given |-> TRUE, exclusions |-> excl]

RECURSIVE splitFrom(_, _, _)
splitFrom(s, i, cur) ==
  IF i > Len(s) THEN <<cur>>
  ELSE IF s[i] = "." THEN <<cur>> \o splitFrom(s, i + 1, <<>>)
  ELSE splitFrom(s, i + 1, Append(cur, s[i]))

\* a split on the first '.' only: the text before it and all the text after it
splitOnFirstDot(s) ==
  IF \E i \in 1..Len(s) : s[i] = "."
  THEN LET i == CHOOSE i \in 1..Len(s) : s[i] = "." /\ \A j \in 1..(i - 1) : s[j] # "."
       IN  <<SubSeq(s, 1, i - 1), SubSeq(s, i + 1, Len(s))>>
  ELSE <<s>>

\* exclusion.split('.'): the pieces between every '.'
split(s) == splitFrom(s, 1, <<>>)

\* one turn of the loop over options.exclusions, result being the object at r
applyExclusion(h, r, exclusion) ==
  LET parts == split(exclusion)
      typeName == parts[1]
      hasField == Len(parts) >= 2 /\ parts[2] # <<>>
  IN  IF ~hasField \/ parts[2] = <<"*">>
      THEN [h EXCEPT ![r] = deleteKey(@, typeName)]
      ELSE IF typeName \in DOMAIN h[r]
           THEN IF isObject(h[r][typeName])
                THEN [h EXCEPT ![addr(h[r][typeName])] = deleteKey(@, parts[2])]
                ELSE h   \* delete of a property of a leaf value: nothing happens
           ELSE h

RECURSIVE applyExclusions(_, _, _)
applyExclusions(h, r, excl) ==
  IF excl = <<>> THEN h
  ELSE applyExclusions(applyExclusion(h, r, Head(excl)), r, Tail(excl))

\* ---------------------------------------------------------------- mergeResolvers

MapDef(a) == [kind |-> "map", a |-> a]
Composed(resolvers, factories) ==
  [kind |-> "composed", resolvers |-> resolvers, factories |-> factories]

RECURSIVE mergeResolvers(_, _, _)
RECURSIVE collect(_, _, _, _)
RECURSIVE single(_, _, _)

\* the loop without the Array.isArray step: a Group is an object that
\* mergeDeep passes over
RECURSIVE collectWithoutGroups(_, _, _, _)
collectWithoutGroups(h, defs, factories, resolvers) ==
  IF defs = <<>> THEN [h |-> h, factories |-> factories, resolvers |-> resolvers]
  ELSE
    LET d == Head(defs)
    IN  IF d.kind \in {"factory", "composed"}
        THEN collectWithoutGroups(h, Tail(defs), Append(factories, d), resolvers)
        ELSE IF d.kind = "map"
        THEN collectWithoutGroups(h, Tail(defs), factories, Append(resolvers, d.a))
        ELSE collectWithoutGroups(h, Tail(defs), factories, resolvers)

\* the loop over resolversDefinitions: Groups are replaced by their merge,
\* functions go to resolversFactories, objects to resolvers, the rest is dropped
collect(h, defs, factories, resolvers) ==
  IF defs = <<>> THEN [h |-> h, factories |-> factories, resolvers |-> resolvers]
  ELSE
    LET d == Head(defs)
        m == IF d.kind = "group" THEN mergeResolvers(h, d.items, NoOptions)
             ELSE [h |-> h, v |-> d]
    IN  IF m.v.kind \in {"factory", "composed"}
        THEN collect(m.h, Tail(defs), Append(factories, m.v), resolvers)
        ELSE IF m.v.kind = "map"
        THEN collect(m.h, Tail(defs), factories, Append(resolvers, m.v.a))
        ELSE collect(m.h, Tail(defs), factories, resolvers)

\* the two branches that build result
merged(c) ==
  IF c.factories # <<>>
  THEN [h |-> c.h, v |-> Composed(c.resolvers, c.factories)]
  ELSE LET m == reduceMergeDeep(c.h, c.resolvers) IN [h |-> m.h, v |-> MapDef(m.a)]

\* the exclusion step on result; when result is the composed Factory the
\* deletes act on the function object, which has no property of these names
excluded(m, options) ==
  IF options.given /\ m.v.kind = "map"
  THEN [h |-> applyExclusions(m.h, m.v.a, options.exclusions), v |-> m.v]
  ELSE m

\* the branch for one definition, were the exclusions applied to it
singleWithExclusions(h, d, options) ==
  IF d.kind = "group" THEN mergeResolvers(h, d.items, NoOptions)
  ELSE excluded([h |-> h, v |-> d], options)

\* the branch for one definition, were the options handed on to the Group
singlePassingOptions(h, d, options) ==
  IF d.kind = "group" THEN mergeResolvers(h, d.items, options)
  ELSE [h |-> h, v |-> d]

\* the branch for exactly one definition; options is in scope and not used
single(h, d, options) ==
  IF d.kind = "group" THEN mergeResolvers(h, d.items, NoOptions)
  ELSE [h |-> h, v |-> d]

\* mergeResolvers(resolversDefinitions, options); absent definitions are <<>>
mergeResolvers(h, defs, options) ==
  IF Len(defs) = 0
  THEN LET h1 == Append(h, EmptyObject) IN [h |-> h1, v |-> MapDef(Len(h1))]
  ELSE IF Len(defs) = 1
  THEN single(h, defs[1], options)
  ELSE excluded(merged(collect(h, defs, <<>>, <<>>)), options)

\* ---------------------------------------------------------------- factories

\* What a Map literal looks like: per type name a leaf, or a mapping with the
\* given field names; shared: the types' mappings are one and the same object.
Leaf == [scalar |-> TRUE, fields |-> {}]
Fields(fs) == [scalar |-> FALSE, fields |-> fs]
Shape(types, shared) == [types |-> types, shared |-> shared]

RECURSIVE allocTypes(_, _, _, _, _, _)
allocTypes(h, shape, val, ks, obj, node) ==
  IF ks = <<>> THEN [h |-> h, obj |-> obj]
  ELSE
    LET k == Head(ks)
        e == shape.types[k]
    IN  IF e.scalar
        THEN allocTypes(h, shape, val, Tail(ks), put(obj, k, Scalar(val)), node)
        ELSE IF shape.shared /\ node # 0
        THEN allocTypes(h, shape, val, Tail(ks), put(obj, k, Ref(node)), node)
        ELSE LET h1 == Append(h, [f \in e.fields |-> Scalar(val)])
             IN  allocTypes(h1, shape, val, Tail(ks), put(obj, k, Ref(Len(h1))), Len(h1))

\* a new Map of the given shape, every leaf of it being val
allocMap(h, shape, val) ==
  LET t == allocTypes(h, shape, val, keysOf(shape.types), EmptyObject, 0)
      h1 == Append(t.h, t.obj)
  IN  [h |-> h1, a |-> Len(h1)]

FactoryDef(id, shape) == [kind |-> "factory", id |-> id, shape |-> shape]

RECURSIVE invoke(_, _, _, _)
RECURSIVE invokeAll(_, _, _, _, _)

\* the Factories called from the last to the first
RECURSIVE invokeAllBackwards(_, _, _, _, _)
invokeAllBackwards(h, log, fs, arg, as) ==
  IF fs = <<>> THEN [h |-> h, calls |-> log, as |-> as]
  ELSE LET rest == invokeAllBackwards(h, log, Tail(fs), arg, <<>>)
           r == invoke(rest.h, rest.calls, Head(fs), arg)
       IN  [h |-> r.h, calls |-> r.calls, as |-> as \o <<r.a>> \o rest.as]

\* resolversFactories.map(factory => factory(...args))
invokeAll(h, log, fs, arg, as) ==
  IF fs = <<>> THEN [h |-> h, calls |-> log, as |-> as]
  ELSE LET r == invoke(h, log, Head(fs), arg)
       IN  invokeAll(r.h, r.calls, Tail(fs), arg, Append(as, r.a))

\* the Factories' Maps before the Maps given directly
factoriesFirst(resolvers, resultsOfFactories) == resultsOfFactories \o resolvers

\* what the composed Factory merges, in this order
mergeOrder(resolvers, resultsOfFactories) == resolvers \o resultsOfFactories

\* a call f(...args): an input Factory returns a new Map whose leaves record
\* the Factory and the argument; a composed Factory runs its closure
invoke(h, log, f, arg) ==
  IF f.kind = "factory"
  THEN LET m == allocMap(h, f.shape, <<f.id, arg>>)
       IN  [h |-> m.h, calls |-> Append(log, [id |-> f.id, arg |-> arg]), a |-> m.a]
  ELSE LET rs == invokeAll(h, log, f.factories, arg, <<>>)
           m == reduceMergeDeep(rs.h, mergeOrder(f.resolvers, rs.as))
       IN  [h |-> m.h, calls |-> rs.calls, a |-> m.a]

\* ---------------------------------------------------------------- inputs

MapLit(shape) == [kind |-> "map", shape |-> shape]
FactoryLit(shape) == [kind |-> "factory", shape |-> shape]
Other == [kind |-> "other"]
Group(items) == [kind |-> "group", items |-> items]

RECURSIVE build(_, _, _)
\* the definitions written as literals, put on the heap: the n-th Map or
\* Factory of the input (n counted from pos) has the leaves <<n, 0>>
build(h, lits, pos) ==
  IF lits = <<>> THEN [h |-> h, defs |-> <<>>, pos |-> pos, count |-> 0]
  ELSE
    LET l == Head(lits)
        first ==
          IF l.kind = "map"
          THEN LET m == allocMap(h, l.shape, <<pos, 0>>)
               IN  [h |-> m.h, d |-> MapDef(m.a), pos |-> pos + 1, count |-> 1]
          ELSE IF l.kind = "factory"
          THEN [h |-> h, d |-> FactoryDef(pos, l.shape), pos |-> pos + 1, count |-> 1]
          ELSE IF l.kind = "group"
          THEN LET g == build(h, l.items, pos)
               IN  [h |-> g.h, d |-> Group(g.defs), pos |-> g.pos, count |-> g.count]
          ELSE [h |-> h, d |-> Other, pos |-> pos, count |-> 1]
        rest == build(first.h, Tail(lits), first.pos)
    IN  [h |-> rest.h, defs |-> <<first.d>> \o rest.defs, pos |-> rest.pos,
         count |-> first.count + rest.count]

\* exclusion strings: "A" is <<"A">>, "A.x" is <<"A", ".", "x">>
WellFormed ==
  { <<"A">>, <<"B">>, <<"A", ".", "*">>, <<"A", ".", "x">>, <<"A", ".", "y">>,
    <<"B", ".", "x">> }
Malformed ==
  { <<"A", ".", "x", ".", "y">>, <<"A", ".", "*", ".", "x">>, <<"A", ".">>,
    <<".", "x">>, <<>>, <<"A", ".", ".", "x">> }

SeqsUpTo(S, n) == UNION { [1..m -> S] : m \in 0..n }

\* options: absent, or exclusions of up to MaxExcl well-formed strings, or one
\* string of any form
OptionInputs ==
  {NoOptions} \cup { Options(e) : e \in SeqsUpTo(WellFormed, MaxExcl) }
              \cup { Options(<<e>>) : e \in Malformed }
FewOptions == { NoOptions, Options(<<TA>>), Options(<<<<"A", ".", "x">>>>) }

\* Map literals: type A absent, a leaf, or a mapping with fields among x, y;
\* type B absent or {x}; and one literal whose A and B are the same object
TypeShapes ==
  { t \in UNION { [D -> {Leaf, Fields({FX}), Fields({FY}), Fields({FX, FY})}]
                  : D \in SUBSET {TA, TB} }
      : TB \in DOMAIN t => t[TB] = Fields({FX}) }
MapShapes ==
  { Shape(t, FALSE) : t \in TypeShapes }
    \cup { Shape((TA :> Fields({FX})) @@ (TB :> Fields({FX})), TRUE) }
MapInputs == { MapLit(sh) : sh \in MapShapes }

\* the definitions mixed with Factories
FewLeaves ==
  { MapLit(Shape((TA :> Fields({FX})), FALSE)),
    MapLit(Shape((TA :> Fields({FY})) @@ (TB :> Fields({FX})), FALSE)),
    MapLit(Shape((TA :> Leaf), FALSE)),
    FactoryLit(Shape((TA :> Fields({FX})), FALSE)),
    FactoryLit(Shape((TA :> Fields({FX, FY})) @@ (TB :> Leaf), FALSE)),
    Other }

\* two definitions and three, flat and grouped
Pairs(L) == { <<a, b>> : a \in L, b \in L }
Triples(L) == { <<a, b, c>> : a \in L, b \in L, c \in L }
Nestings(L) ==
  Pairs(L) \cup Triples(L)
    \cup { <<t[1], Group(<<t[2], t[3]>>)>> : t \in Triples(L) }
    \cup { <<Group(<<t[1], t[2]>>), t[3]>> : t \in Triples(L) }
    \cup { <<q[1], Group(<<q[2]>>)>> : q \in Pairs(L) }
    \cup { <<q[1], Group(<<Group(<<q[1], q[2]>>)>>)>> : q \in Pairs(L) }
    \cup { <<a, Group(<<>>)>> : a \in L }
Singles(L) ==
  { <<a>> : a \in L } \cup { <<Group(q)>> : q \in Pairs(L) }
    \cup { <<Group(<<Group(q)>>)>> : q \in Pairs(L) }
    \cup { <<Group(<<a>>)>> : a \in L }
    \cup { <<Group(<<>>)>> }

InputCases ==
  { [defs |-> d, options |-> o] : d \in Pairs(MapInputs), o \in OptionInputs }
    \cup { [defs |-> d, options |-> NoOptions] : d \in Nestings(MapInputs) }
    \cup { [defs |-> d, options |-> o] : d \in Nestings(FewLeaves), o \in FewOptions }
    \cup { [defs |-> d, options |-> o]
            : d \in {<<>>} \cup Singles(FewLeaves) \cup Singles(MapInputs),
              o \in FewOptions }

\* ---------------------------------------------------------------- the program

Init ==
  /\ \E c \in InputCases :
       LET b == build(<<>>, c.defs, 1)
       IN  /\ input = [defs |-> b.defs, options |-> c.options, heap |-> b.h,
                       count |-> b.count]
           /\ heap = b.h
  /\ pc = "start"
  /\ result = Other
  /\ calls = <<>>
  /\ outputs = <<>>

\* the call mergeResolvers(defs, options)
Call ==
  /\ pc = "start"
  /\ LET r == mergeResolvers(heap, input.defs, input.options)
     IN  heap' = r.h /\ result' = r.v
  /\ pc' = "returned"
  /\ UNCHANGED <<input, calls, outputs>>

\* the caller invokes the Factory that was returned, with the argument arg
Invoke(arg) ==
  /\ pc = "returned"
  /\ result.kind \in {"factory", "composed"}
  /\ Len(outputs) < MaxInvocations
  /\ LET r == invoke(heap, calls, result, arg)
     IN  /\ heap' = r.h
         /\ calls' = r.calls
         /\ outputs' = Append(outputs, [arg |-> arg, a |-> r.a,
                                        first |-> Len(calls) + 1, last |-> Len(r.calls)])
  /\ UNCHANGED <<input, pc, result>>

Next == Call \/ \E arg \in 1..MaxArg : Invoke(arg)

Spec == Init /\ [][Next]_vars

\* ---------------------------------------------------------------- what a Map holds

\* A Map as the set of its entries: [path, leaf], the leaf of a mapping
\* being <<>>. Two Maps are structurally equal when these sets are equal.
RECURSIVE Entries(_, _, _)
Entries(h, a, prefix) ==
  UNION { IF isObject(h[a][k])
          THEN {[path |-> Append(prefix, k), leaf |-> <<>>]}
                 \cup Entries(h, addr(h[a][k]), Append(prefix, k))
          ELSE {[path |-> Append(prefix, k), leaf |-> h[a][k].v]}
          : k \in DOMAIN h[a] }
Struct(h, a) == Entries(h, a, <<>>)

\* the Map a Factory of this shape returns
ShapeVal(shape, val) ==
  UNION { IF shape.types[k].scalar
          THEN {[path |-> <<k>>, leaf |-> val]}
          ELSE {[path |-> <<k>>, leaf |-> <<>>]}
                 \cup {[path |-> <<k, f>>, leaf |-> val] : f \in shape.types[k].fields}
          : k \in DOMAIN shape.types }

IsPrefix(p, q) == Len(p) < Len(q) /\ SubSeq(q, 1, Len(p)) = p

\* Deep merge, said of the entries: everything of Q, and of P what Q neither
\* holds itself nor covers with a leaf higher up.
MergeVal(P, Q) ==
  Q \cup { e \in P : /\ \A q \in Q : q.path # e.path
                     /\ \A q \in Q : ~(q.leaf # <<>> /\ IsPrefix(q.path, e.path)) }

RECURSIVE FoldMerge(_, _)
FoldMerge(acc, vals) ==
  IF vals = <<>> THEN acc ELSE FoldMerge(MergeVal(acc, Head(vals)), Tail(vals))

\* What a sequence of definitions means, without the heap: its kind, and for
\* the argument arg the entries of the Map it stands for.
RECURSIVE DenKind(_)
RECURSIVE DenVal(_, _)
ItemKind(d) ==
  IF d.kind = "group" THEN DenKind(d.items)
  ELSE IF d.kind = "composed" THEN "factory" ELSE d.kind
ItemVal(d, arg) ==
  IF d.kind = "group" THEN DenVal(d.items, arg)
  ELSE IF d.kind = "map" THEN Struct(input.heap, d.a)
  ELSE IF d.kind = "factory" THEN ShapeVal(d.shape, <<d.id, arg>>)
  ELSE {}
DenKind(defs) ==
  IF Len(defs) = 0 THEN "map"
  ELSE IF Len(defs) = 1 THEN ItemKind(defs[1])
  ELSE IF \E i \in 1..Len(defs) : ItemKind(defs[i]) = "factory" THEN "factory"
  ELSE "map"
vals(ds, arg) == [i \in 1..Len(ds) |-> ItemVal(ds[i], arg)]
DenVal(defs, arg) ==
  IF Len(defs) = 0 THEN {}
  ELSE IF Len(defs) = 1 THEN ItemVal(defs[1], arg)
  ELSE FoldMerge({},
         vals(SelectSeq(defs, LAMBDA d : ItemKind(d) = "map"), arg)
           \o vals(SelectSeq(defs, LAMBDA d : ItemKind(d) = "factory"), arg))

\* the Maps and Factories of the input, Groups opened, in input order
RECURSIVE Leaves(_)
Leaves(defs) ==
  IF defs = <<>> THEN <<>>
  ELSE LET d == Head(defs)
       IN  (IF d.kind = "group" THEN Leaves(d.items)
            ELSE IF d.kind = "other" THEN <<>> ELSE <<d>>) \o Leaves(Tail(defs))

Returned == pc = "returned"
IsFactory(v) == v.kind \in {"factory", "composed"}
AllMaps(defs) == \A i \in 1..Len(defs) : defs[i].kind = "map"
Max(S) == CHOOSE n \in S : \A m \in S : m <= n

\* the final merged Maps of a state: the returned Map, or what the
\* invocations of the returned Factory returned, each with its argument
Finals ==
  IF ~Returned THEN {}
  ELSE IF result.kind = "map" THEN {[arg |-> 0, val |-> Struct(heap, result.a)]}
  ELSE { [arg |-> outputs[i].arg, val |-> Struct(heap, outputs[i].a)]
         : i \in 1..Len(outputs) }

\* ---------------------------------------------------------------- claims

\* the leaves every Map or Factory of the input supplies, for the argument arg
Supplied(arg) ==
  UNION { { e \in ItemVal(Leaves(input.defs)[i], arg) : e.leaf # <<>> }
          : i \in 1..Len(Leaves(input.defs)) }
Suppliers(path, arg) == { e.leaf[1] : e \in { s \in Supplied(arg) : s.path = path } }

\* every definition of the input is a Map, a Factory or a Group
OnlyMapsFactoriesGroups == Len(Leaves(input.defs)) = input.count

\* C1: for two or more definitions, when several of them supply a value for
\* the same type and field, the value in the final merged Map is the one of
\* the definition that comes last in the input.
C1_LaterWins ==
  (Len(input.defs) >= 2 /\ OnlyMapsFactoriesGroups) =>
    \A f \in Finals : \A e \in f.val :
      (e.leaf # <<>> /\ Cardinality(Suppliers(e.path, f.arg)) >= 2)
        => e.leaf[1] = Max(Suppliers(e.path, f.arg))

\* C1 holds of the inputs without a Factory
C1_LaterWinsAmongMaps ==
  (Len(input.defs) >= 2 /\ Returned /\ result.kind = "map") => C1_LaterWins

\* what a well-formed exclusion names: the path of a type, or of a field
FirstDot(s) ==
  IF \E i \in 1..Len(s) : s[i] = "."
  THEN CHOOSE i \in 1..Len(s) : s[i] = "." /\ \A j \in 1..(i - 1) : s[j] # "."
  ELSE 0
IsWellFormed(s) ==
  \/ FirstDot(s) = 0
  \/ /\ FirstDot(s) < Len(s)
     /\ \A j \in (FirstDot(s) + 1)..Len(s) : s[j] # "."
NamedPath(s) ==
  LET i == FirstDot(s)
  IN  IF i = 0 THEN <<s>>
      ELSE IF SubSeq(s, i + 1, Len(s)) = <<"*">> THEN <<SubSeq(s, 1, i - 1)>>
      ELSE <<SubSeq(s, 1, i - 1), SubSeq(s, i + 1, Len(s))>>
Under(path, e) == e.path = path \/ IsPrefix(path, e.path)

\* C2: with a Factory among two or more inputs, the Map the returned Factory
\* yields no longer holds a type or field the exclusions name.
C2_ExclusionsAfterInvocation ==
  (Returned /\ Len(input.defs) >= 2 /\ IsFactory(result) /\ input.options.given) =>
    \A i \in 1..Len(outputs) : \A k \in 1..Len(input.options.exclusions) :
      \A e \in Struct(heap, outputs[i].a) :
        ~Under(NamedPath(input.options.exclusions[k]), e)

\* C3: after the call every object of the input holds exactly the keys and
\* values it held before the call.
C3_InputsNotMutated ==
  Returned => \A a \in 1..Len(input.heap) : heap[a] = input.heap[a]

\* two or more Maps, and exclusions of the forms "T", "T.*", "T.f"
C4_Case ==
  /\ Returned
  /\ Len(input.defs) >= 2
  /\ AllMaps(input.defs)
  /\ input.options.given
  /\ \A k \in 1..Len(input.options.exclusions) :
       IsWellFormed(input.options.exclusions[k])
C4_Expected ==
  { e \in FoldMerge({}, vals(input.defs, 0)) :
      \A k \in 1..Len(input.options.exclusions) :
        ~Under(NamedPath(input.options.exclusions[k]), e) }

\* C4: two or more Maps and well-formed exclusions: the result is the
\* left-to-right deep merge of the inputs without the entries the exclusions
\* name, and every other entry is kept with its merged value.
C4_MergeMinusExclusions ==
  C4_Case => result.kind = "map" /\ Struct(heap, result.a) = C4_Expected

\* no Map of the input holds one mapping under two type names
NoSharing ==
  \A a \in 1..Len(input.heap) :
    \A j, k \in DOMAIN input.heap[a] :
      (j # k /\ isObject(input.heap[a][j]) /\ isObject(input.heap[a][k]))
        => addr(input.heap[a][j]) # addr(input.heap[a][k])
\* C4 holds of every input in which no mapping is shared
C4_WithoutSharing ==
  (C4_Case /\ NoSharing) => Struct(heap, result.a) = C4_Expected

\* two or more definitions, one of them a Factory or a Group that merges to one
C5_Case ==
  /\ Returned
  /\ Len(input.defs) >= 2
  /\ \E i \in 1..Len(input.defs) : ItemKind(input.defs[i]) = "factory"

\* C5: with a Factory among two or more inputs (Groups replaced by their
\* merge), a Factory is returned, and invoking it yields the left-to-right
\* deep merge of the Maps in input order followed by the Factories' Maps in
\* input order.
C5_MapsThenFactories ==
  C5_Case =>
    /\ IsFactory(result)
    /\ \A i \in 1..Len(outputs) :
         Struct(heap, outputs[i].a) = DenVal(input.defs, outputs[i].arg)
\* a Factory stands before a Map that supplies the same field, and the
\* returned Factory was invoked
C5_Witness ==
  /\ C5_Case
  /\ Len(outputs) >= 1
  /\ input.defs[1].kind = "factory"
  /\ input.defs[2].kind = "map"
  /\ \E e \in Struct(heap, outputs[1].a) :
       e.leaf # <<>> /\ e.leaf[1] = 1 /\ Suppliers(e.path, outputs[1].arg) = {1, 2}

\* exactly one definition, a Map or a Factory
C6_Case ==
  Returned /\ Len(input.defs) = 1 /\ input.defs[1].kind \in {"map", "factory"}

\* C6: one definition that is not a Group is returned as it is, whatever the
\* options: the same object, and no object changed.
C6_SingleReturnedUnchanged ==
  C6_Case =>
    /\ result = input.defs[1]
    /\ \A a \in 1..Len(input.heap) : heap[a] = input.heap[a]
\* the exclusions name a type, or a field, that the single Map holds
C6_Witness ==
  /\ C6_Case
  /\ input.defs[1].kind = "map"
  /\ input.options.given
  /\ \E k \in 1..Len(input.options.exclusions) :
       \E e \in Struct(heap, result.a) :
         e.path = NamedPath(input.options.exclusions[k])

\* exactly one definition, a Group
C7_Case == Returned /\ Len(input.defs) = 1 /\ input.defs[1].kind = "group"

\* C7: one definition that is a Group G: the result is what G's elements
\* merge to without options, whatever the options of the call; the
\* exclusions of the call are not applied and no object changes.
C7_SingleGroupUnwrapped ==
  C7_Case =>
    /\ IsFactory(result) <=> DenKind(input.defs[1].items) = "factory"
    /\ result.kind = "other" <=> DenKind(input.defs[1].items) = "other"
    /\ \A f \in Finals : f.val = DenVal(input.defs[1].items, f.arg)
    /\ \A a \in 1..Len(input.heap) : heap[a] = input.heap[a]
\* the Group holds only a Group of two Maps, and the exclusions name
\* something the result holds
C7_Witness ==
  /\ C7_Case
  /\ result.kind = "map"
  /\ Len(input.defs[1].items) = 1
  /\ input.defs[1].items[1].kind = "group"
  /\ Len(input.defs[1].items[1].items) = 2
  /\ input.options.given
  /\ \E k \in 1..Len(input.options.exclusions) :
       \E e \in Struct(heap, result.a) :
         e.path = NamedPath(input.options.exclusions[k])

\* the Factories of the input, Groups opened, and the calls one invocation
\* with arg owes them
FactoryLeaves == SelectSeq(Leaves(input.defs), LAMBDA d : d.kind = "factory")
ExpectedCalls(arg) ==
  [i \in 1..Len(FactoryLeaves) |-> [id |-> FactoryLeaves[i].id, arg |-> arg]]

\* C8: mergeResolvers calls no Factory; every invocation of the returned
\* Factory calls every Factory of the input once, with the invocation's
\* argument, in input order; the next invocation calls them all again.
C8_FactoriesCalledPerInvocation ==
  /\ Len(outputs) = 0 => calls = <<>>
  /\ \A i \in 1..Len(outputs) :
       /\ outputs[i].first = (i - 1) * Len(FactoryLeaves) + 1
       /\ SubSeq(calls, outputs[i].first, outputs[i].last)
            = ExpectedCalls(outputs[i].arg)
  /\ Len(calls) = Len(outputs) * Len(FactoryLeaves)
\* two invocations, with a Factory inside a Group and another after it
C8_Witness ==
  /\ Len(outputs) = 2
  /\ outputs[1].arg # outputs[2].arg
  /\ Len(input.defs) = 2
  /\ input.defs[1].kind = "group"
  /\ Len(input.defs[1].items) = 2
  /\ input.defs[1].items[2].kind = "factory"
  /\ input.defs[2].kind = "factory"

\* what the loop over the exclusions does to the merged result at r, when
\* each string is read as typeName, fieldName, whole
deleteNamed(h, r, typeName, fieldName, whole) ==
  IF whole THEN [h EXCEPT ![r] = deleteKey(@, typeName)]
  ELSE IF typeName \in DOMAIN h[r] /\ isObject(h[r][typeName])
  THEN [h EXCEPT ![addr(h[r][typeName])] = deleteKey(@, fieldName)]
  ELSE h
NextDot(s, i) ==
  IF \E j \in (i + 1)..Len(s) : s[j] = "."
  THEN CHOOSE j \in (i + 1)..Len(s) : s[j] = "." /\ \A m \in (i + 1)..(j - 1) : s[m] # "."
  ELSE Len(s) + 1
TypeNameOf(s) == IF FirstDot(s) = 0 THEN s ELSE SubSeq(s, 1, FirstDot(s) - 1)
\* the field name as all the text after the first '.'
RestOf(s) == SubSeq(s, FirstDot(s) + 1, Len(s))
\* the field name as the text between the first '.' and the next one
SecondOf(s) == SubSeq(s, FirstDot(s) + 1, NextDot(s, FirstDot(s)) - 1)

RECURSIVE DeleteOnFirstDot(_, _, _)
DeleteOnFirstDot(h, r, excl) ==
  IF excl = <<>> THEN h
  ELSE LET s == Head(excl)
       IN  DeleteOnFirstDot(
             deleteNamed(h, r, TypeNameOf(s), RestOf(s),
                         FirstDot(s) = 0 \/ RestOf(s) = <<"*">>),
             r, Tail(excl))
RECURSIVE DeleteOnEveryDot(_, _, _)
DeleteOnEveryDot(h, r, excl) ==
  IF excl = <<>> THEN h
  ELSE LET s == Head(excl)
       IN  DeleteOnEveryDot(
             deleteNamed(h, r, TypeNameOf(s), SecondOf(s),
                         FirstDot(s) = 0 \/ SecondOf(s) = <<>> \/ SecondOf(s) = <<"*">>),
             r, Tail(excl))

C9_Case ==
  Returned /\ Len(input.defs) >= 2 /\ result.kind = "map" /\ input.options.given
Unexcluded == mergeResolvers(input.heap, input.defs, NoOptions)

\* C9 as stated: the field name is all the text after the first '.'; the
\* whole entry goes exactly when there is no '.' or that text is '*', and
\* otherwise only result[typeName][fieldName] is deleted.
C9_SplitOnFirstDot ==
  C9_Case =>
    heap = DeleteOnFirstDot(Unexcluded.h, Unexcluded.v.a, input.options.exclusions)

\* C9 as amended: the field name is the text between the first '.' and the
\* next '.'; the whole entry goes exactly when there is no '.' or the field
\* name is empty or '*', and otherwise only result[typeName][fieldName] is
\* deleted.
C9_SplitOnEveryDot ==
  C9_Case =>
    heap = DeleteOnEveryDot(Unexcluded.h, Unexcluded.v.a, input.options.exclusions)
\* "A.x.y" was given and the field x of A, which the merge holds, is gone
C9_Witness ==
  /\ C9_Case
  /\ input.options.exclusions = << <<"A", ".", "x", ".", "y">> >>
  /\ \E e \in Struct(Unexcluded.h, Unexcluded.v.a) : e.path = <<TA, FX>>
  /\ \A e \in Struct(heap, result.a) : e.path # <<TA, FX>>

\* the two groupings of three Maps
IsMapGroup(d) == d.kind = "group" /\ Len(d.items) = 2 /\ AllMaps(d.items)
GroupedRight ==
  Len(input.defs) = 2 /\ input.defs[1].kind = "map" /\ IsMapGroup(input.defs[2])
GroupedLeft ==
  Len(input.defs) = 2 /\ IsMapGroup(input.defs[1]) /\ input.defs[2].kind = "map"
C10_Case == Returned /\ ~input.options.given /\ (GroupedRight \/ GroupedLeft)
Flat == mergeResolvers(input.heap, Leaves(input.defs), NoOptions)
\* some key is a mapping in the first Map, a leaf in the second, a mapping
\* in the third
LeafBetweenMappings ==
  LET A == Struct(input.heap, Leaves(input.defs)[1].a)
      B == Struct(input.heap, Leaves(input.defs)[2].a)
      C == Struct(input.heap, Leaves(input.defs)[3].a)
  IN  \E a \in A : \E b \in B : \E c \in C :
        /\ a.path = b.path /\ b.path = c.path
        /\ a.leaf = <<>> /\ b.leaf # <<>> /\ c.leaf = <<>>

\* C10 as stated: [A, [B, C]] and [[A, B], C] both give what [A, B, C] gives.
C10_GroupingTransparent ==
  C10_Case => Struct(heap, result.a) = Struct(Flat.h, Flat.v.a)

\* C10 as amended: [[A, B], C] gives what [A, B, C] gives; [A, [B, C]] does
\* unless a key is a mapping in A and in C and a leaf in B.
C10_GroupingTransparentAmended ==
  (C10_Case /\ (GroupedLeft \/ ~LeafBetweenMappings))
    => Struct(heap, result.a) = Struct(Flat.h, Flat.v.a)
\* [A, [B, C]] where a key is a leaf in A and a mapping in B and in C with
\* different fields
C10_Witness ==
  /\ C10_Case
  /\ GroupedRight
  /\ LET A == Struct(input.heap, Leaves(input.defs)[1].a)
         B == Struct(input.heap, Leaves(input.defs)[2].a)
         C == Struct(input.heap, Leaves(input.defs)[3].a)
     IN  /\ [path |-> <<TA>>, leaf |-> <<1, 0>>] \in A
         /\ [path |-> <<TA, FX>>, leaf |-> <<2, 0>>] \in B
         /\ [path |-> <<TA, FY>>, leaf |-> <<3, 0>>] \in C
  /\ [path |-> <<TA, FX>>, leaf |-> <<2, 0>>] \in Struct(heap, result.a)

====
